---- MODULE Spec2Model ----
(***************************************************************************)
(* A model of codegraph-lib: the CodeGraph store (src/code_graph), the     *)
(* relationship inference and enhancement passes (src/indexing/analyzer.rs)*)
(* and the pipeline that drives them (src/lib.rs, src/indexing/processor). *)
(*                                                                         *)
(* A Rust HashMap<K, V> is a function whose DOMAIN is its key set, a       *)
(* HashSet a set, a Vec a sequence, an Option a set with at most one       *)
(* element.  Node ids (UUID strings in the code) are natural numbers, a    *)
(* file path is the pair <<stem, extension>>.                              *)
(***************************************************************************)
EXTENDS Integers, Sequences, FiniteSets, TLC

VARIABLES graph, fs, pc, pending, reread, enhance_runs, query, tasks, lock, rel_calls, pool

vars == <<graph, fs, pc, pending, reread, enhance_runs, query, tasks, lock, rel_calls, pool>>

-----------------------------------------------------------------------------
(* Bounds of the model. *)

\* The deepest traversal asked of find_related_nodes.
MaxDepth == 3

\* The number of add_relationship calls made through the store's API.
MaxRels == 3

\* The number of add_relationship calls of the traversal scenarios.
MaxRelatedRels == 5

\* How often a caller runs enhance_method_names on one store.
MaxEnhanceRuns == 2

\* The number of call sites of the generated callers.
MaxCalls == 2

\* The worker threads of the pool (num_threads).
NumThreads == 2

\* The number of add_relationship calls of the re-insertion scenarios.
MaxReinsertRels == 1

\* The number of add_relationship calls before a traversal is followed step by
\* step.
MaxLoopRels == 3

-----------------------------------------------------------------------------
(* Maps, sequences. *)

Put(m, k, v) == [x \in (DOMAIN m) \cup {k} |-> IF x = k THEN v ELSE m[x]]

\* HashMap::entry(k).or_insert_with(d)
OrInsert(m, k, d) == IF k \in DOMAIN m THEN m ELSE Put(m, k, d)

Range(s) == {s[i] : i \in DOMAIN s}

\* Every ordering of a finite set: the orders a HashMap or HashSet may iterate in.
Perms(S) == {s \in [1..Cardinality(S) -> S] : \A x \in S : \E i \in DOMAIN s : s[i] = x}

RECURSIVE Flatten(_)
Flatten(ss) == IF ss = <<>> THEN <<>> ELSE Head(ss) \o Flatten(Tail(ss))

\* s.iter().map(f) as a sequence
MapSeq(s, f(_)) == [i \in DOMAIN s |-> f(s[i])]

-----------------------------------------------------------------------------
(* src/code_graph/node.rs, relationship.rs *)

NodeType == {"Function", "Method", "Class", "Interface", "Module", "TypeDefinition", "Unknown"}

RelationshipType == {"Calls", "Imports", "Inherits", "References", "Implements", "Contains", "DependsOn"}

\* CodeNode::new: no summary, empty metadata
CodeNode(id, node_type, name, file_path, line_range, content) ==
    [id |-> id, node_type |-> node_type, name |-> name, file_path |-> file_path,
     line_range |-> line_range, content |-> content, summary |-> {}, metadata |-> <<>>]

\* CodeNode::with_metadata
with_metadata(node, key, value) == [node EXCEPT !.metadata = Put(@, key, value)]

\* Relationship::new: empty metadata
Relationship(relationship_type, from_id, to_id) ==
    [relationship_type |-> relationship_type, from_id |-> from_id, to_id |-> to_id,
     metadata |-> <<>>]

-----------------------------------------------------------------------------
(* src/code_graph/mod.rs: the store *)

\* CodeGraph::new
NewGraph ==
    [nodes |-> <<>>, outgoing_edges |-> <<>>, incoming_edges |-> <<>>,
     nodes_by_type |-> <<>>, nodes_by_file |-> <<>>, nodes_by_name |-> <<>>]

\* A plausible slip: the bucket is overwritten, the last writer wins.
IndexReplace(index, key, id) == Put(index, key, {id})

\* index.entry(key).or_insert_with(HashSet::new).insert(id)
IndexInsert(index, key, id) == Put(index, key, (IF key \in DOMAIN index THEN index[key] ELSE {}) \cup {id})

\* A plausible slip in add_node: the by-name index is not updated.
add_node_without_name_index(g, node) ==
    [g EXCEPT
        !.nodes_by_type = IndexInsert(@, node.node_type, node.id),
        !.nodes_by_file = IndexInsert(@, node.file_path, node.id),
        !.outgoing_edges = OrInsert(@, node.id, <<>>),
        !.incoming_edges = OrInsert(@, node.id, <<>>),
        !.nodes = Put(@, node.id, node)]

\* A plausible slip: the adjacency buckets of the id are created anew.
add_node_resetting_edges(g, node) ==
    [g EXCEPT
        !.nodes_by_type = IndexInsert(@, node.node_type, node.id),
        !.nodes_by_file = IndexInsert(@, node.file_path, node.id),
        !.nodes_by_name = IndexInsert(@, node.name, node.id),
        !.outgoing_edges = Put(@, node.id, <<>>),
        !.incoming_edges = Put(@, node.id, <<>>),
        !.nodes = Put(@, node.id, node)]

add_node(g, node) ==
    [g EXCEPT
        !.nodes_by_type = IndexInsert(@, node.node_type, node.id),
        !.nodes_by_file = IndexInsert(@, node.file_path, node.id),
        !.nodes_by_name = IndexInsert(@, node.name, node.id),
        !.outgoing_edges = OrInsert(@, node.id, <<>>),
        !.incoming_edges = OrInsert(@, node.id, <<>>),
        !.nodes = Put(@, node.id, node)]

\* map.entry(key).or_insert_with(Vec::new).push(rel)
BucketPush(map, key, rel) == Put(map, key, Append(IF key \in DOMAIN map THEN map[key] ELSE <<>>, rel))

\* A plausible slip: an edge equal to a stored one is not stored again.
add_relationship_deduplicating(g, relationship) ==
    IF /\ relationship.from_id \in DOMAIN g.outgoing_edges
       /\ \E i \in DOMAIN g.outgoing_edges[relationship.from_id] :
             g.outgoing_edges[relationship.from_id][i] = relationship
    THEN g
    ELSE [g EXCEPT
            !.outgoing_edges = BucketPush(@, relationship.from_id, relationship),
            !.incoming_edges = BucketPush(@, relationship.to_id, relationship)]

add_relationship(g, relationship) ==
    [g EXCEPT
        !.outgoing_edges = BucketPush(@, relationship.from_id, relationship),
        !.incoming_edges = BucketPush(@, relationship.to_id, relationship)]

\* the nodes a sequence of ids resolves to, missing ids dropped (filter_map)
RECURSIVE ResolveIds(_, _)
ResolveIds(g, ids) ==
    IF ids = <<>> THEN <<>>
    ELSE (IF Head(ids) \in DOMAIN g.nodes THEN <<g.nodes[Head(ids)]>> ELSE <<>>)
         \o ResolveIds(g, Tail(ids))

\* A plausible slip: the kind of the edge is not looked at.
IsAnyKind(rel) == rel.relationship_type \in RelationshipType

IsCalls(rel) == rel.relationship_type = "Calls"

FromId(rel) == rel.from_id

ToId(rel) == rel.to_id

find_callers(g, node_id) ==
    IF node_id \in DOMAIN g.incoming_edges
    THEN ResolveIds(g, MapSeq(SelectSeq(g.incoming_edges[node_id], IsCalls), FromId))
    ELSE <<>>

find_called_functions(g, node_id) ==
    IF node_id \in DOMAIN g.outgoing_edges
    THEN ResolveIds(g, MapSeq(SelectSeq(g.outgoing_edges[node_id], IsCalls), ToId))
    ELSE <<>>

\* the nodes of a by-name bucket; the Vec's order is the HashSet's, so a set
find_nodes_by_name(g, name) ==
    IF name \in DOMAIN g.nodes_by_name
    THEN {g.nodes[id] : id \in g.nodes_by_name[name] \cap DOMAIN g.nodes}
    ELSE {}

\* what one expansion pushes: the far ends of the outgoing, then of the incoming edges
Pushes(g, current_id, current_depth) ==
    (IF current_id \in DOMAIN g.outgoing_edges
     THEN [i \in DOMAIN g.outgoing_edges[current_id] |->
              <<g.outgoing_edges[current_id][i].to_id, current_depth + 1>>]
     ELSE <<>>)
    \o
    (IF current_id \in DOMAIN g.incoming_edges
     THEN [i \in DOMAIN g.incoming_edges[current_id] |->
              <<g.incoming_edges[current_id][i].from_id, current_depth + 1>>]
     ELSE <<>>)

\* the while-let loop of find_related_nodes; to_visit is a stack popped at its end
RECURSIVE RelatedLoop(_, _, _, _, _)
RelatedLoop(g, depth, to_visit, visited, result) ==
    IF to_visit = <<>> THEN result
    ELSE LET top == to_visit[Len(to_visit)]
             rest == SubSeq(to_visit, 1, Len(to_visit) - 1)
             current_id == top[1]
             current_depth == top[2]
         IN  IF current_depth > depth \/ current_id \in visited
             THEN RelatedLoop(g, depth, rest, visited, result)
             ELSE IF current_id \in DOMAIN g.nodes
                  THEN RelatedLoop(g, depth,
                                   IF current_depth < depth
                                   THEN rest \o Pushes(g, current_id, current_depth)
                                   ELSE rest,
                                   visited \cup {current_id},
                                   result \cup {g.nodes[current_id]})
                  ELSE RelatedLoop(g, depth, rest, visited \cup {current_id}, result)

\* A plausible slip: the start node is pushed at depth 1, so depth 0 finds nothing.
find_related_nodes_start_at_one(g, node_id, depth) ==
    RelatedLoop(g, depth, << <<node_id, 1>> >>, {}, {})

find_related_nodes(g, node_id, depth) ==
    RelatedLoop(g, depth, << <<node_id, 0>> >>, {}, {})

get_node(g, id) == IF id \in DOMAIN g.nodes THEN {g.nodes[id]} ELSE {}

node_count(g) == Cardinality(DOMAIN g.nodes)

RECURSIVE SumLen(_, _)
SumLen(map, keys) ==
    IF keys = {} THEN 0
    ELSE LET k == CHOOSE x \in keys : TRUE IN Len(map[k]) + SumLen(map, keys \ {k})

relationship_count(g) == SumLen(g.outgoing_edges, DOMAIN g.outgoing_edges)

-----------------------------------------------------------------------------
(* Calls of the store's API by a client of the library. *)

NoQuery == [op |-> "none"]

\* the nodes a client inserts: three ids, kinds, names and files that collide
NodeIds == {1, 2, 3}

NodeInputs ==
    {CodeNode(id, t[1], t[2], t[3], <<1, 3>>, "src") :
        id \in NodeIds,
        t \in {<<"Function", "run", <<"a", "rs">> >>, <<"Function", "run", <<"b", "rs">> >>,
               <<"Class", "Widget", <<"a", "rs">> >>, <<"Method", "Widget", <<"b", "rs">> >>}}

\* the edges a client inserts, from the last two ids into the first two, a
\* self-loop among them; an endpoint need not be in the node map
RelInputs ==
    {Relationship(k, f, t) : k \in {"Calls", "Contains"}, f \in {2, 3}, t \in {1, 2}}

AddNode(node) ==
    /\ pc = "api"
    /\ graph' = add_node(graph, node)
    /\ UNCHANGED <<fs, pc, pending, reread, enhance_runs, query, tasks, lock, rel_calls, pool>>

\* rel_calls counts the client's calls of add_relationship
AddRelationship(rel, max) ==
    /\ pc = "api"
    /\ rel_calls < max
    /\ graph' = add_relationship(graph, rel)
    /\ rel_calls' = rel_calls + 1
    /\ UNCHANGED <<fs, pc, pending, reread, enhance_runs, query, tasks, lock, pool>>

FindRelatedNodes(node_id, depth) ==
    /\ pc = "api"
    /\ query' = [op |-> "find_related_nodes", node_id |-> node_id, depth |-> depth,
                 result |-> find_related_nodes(graph, node_id, depth)]
    /\ pc' = "queried"
    /\ UNCHANGED <<graph, fs, pending, reread, enhance_runs, tasks, lock, rel_calls, pool>>

FindCallers(node_id) ==
    /\ pc = "api"
    /\ query' = [op |-> "find_callers", node_id |-> node_id,
                 result |-> find_callers(graph, node_id)]
    /\ pc' = "queried"
    /\ UNCHANGED <<graph, fs, pending, reread, enhance_runs, tasks, lock, rel_calls, pool>>

FindCalledFunctions(node_id) ==
    /\ pc = "api"
    /\ query' = [op |-> "find_called_functions", node_id |-> node_id,
                 result |-> find_called_functions(graph, node_id)]
    /\ pc' = "queried"
    /\ UNCHANGED <<graph, fs, pending, reread, enhance_runs, tasks, lock, rel_calls, pool>>

ApiInit ==
    /\ graph = NewGraph
    /\ fs = <<>>
    /\ pc = "api"
    /\ pending = {}
    /\ reread = {}
    /\ enhance_runs = 0
    /\ query = NoQuery
    /\ tasks = <<>>
    /\ lock = {}
    /\ rel_calls = 0
    /\ pool = {}

Init == ApiInit

Next ==
    \/ \E node \in NodeInputs : node.id \notin DOMAIN graph.nodes /\ AddNode(node)
    \/ \E rel \in RelInputs : AddRelationship(rel, MaxRels)
    \/ \E id \in NodeIds : FindCallers(id)
    \/ \E id \in NodeIds : FindCalledFunctions(id)

Spec == Init /\ [][Next]_vars

-----------------------------------------------------------------------------
(* The re-insertion scenarios: a client calls add_node with an id that is in  *)
(* the node map; query keeps the node of the last such call.                  *)

ReinsertIds == {1, 2}

AddNodeAgain(node) ==
    /\ pc = "api"
    /\ node.id \in DOMAIN graph.nodes
    /\ graph' = add_node(graph, node)
    /\ query' = [op |-> "add_node", node_id |-> node.id, node |-> node]
    /\ UNCHANGED <<fs, pc, pending, reread, enhance_runs, tasks, lock, rel_calls, pool>>

ReinsertNext ==
    \/ \E node \in NodeInputs :
          node.id \in ReinsertIds /\ node.id \notin DOMAIN graph.nodes /\ AddNode(node)
    \/ \E rel \in RelInputs : AddRelationship(rel, MaxReinsertRels)
    \/ \E node \in NodeInputs : node.id \in ReinsertIds /\ AddNodeAgain(node)

ReinsertSpec == Init /\ [][ReinsertNext]_vars

-----------------------------------------------------------------------------
(* The traversal scenarios: five nodes, edges that form a chain with chords, *)
(* a reversed edge and a self-loop; an edge whose endpoint has not been      *)
(* inserted dangles.                                                         *)

RelatedIds == {1, 2, 3, 4, 5}

RelatedNodeInputs == {CodeNode(id, "Function", "run", <<"a", "rs">>, <<1, 3>>, "src") : id \in RelatedIds}

RelatedRelInputs ==
    {Relationship("Calls", e[1], e[2]) :
        e \in {<<1, 2>>, <<1, 3>>, <<3, 4>>, <<2, 4>>, <<2, 5>>, <<2, 1>>, <<1, 1>>}}

QueryIds == {1, 2}

RelatedNext ==
    \/ \E node \in RelatedNodeInputs : node.id \notin DOMAIN graph.nodes /\ AddNode(node)
    \/ \E rel \in RelatedRelInputs : AddRelationship(rel, MaxRelatedRels)
    \/ \E id \in QueryIds, depth \in 0..MaxDepth : FindRelatedNodes(id, depth)

RelatedSpec == Init /\ [][RelatedNext]_vars

-----------------------------------------------------------------------------
(* find_related_nodes turn by turn of its while-let loop.  query holds the    *)
(* locals to_visit, visited and result; marked and expanded record, in order, *)
(* the ids inserted into visited and the ids whose edges were pushed.  The    *)
(* stores have up to three nodes and a two-node cycle, a self-loop, an edge    *)
(* into the third id, parallel edges by repetition, and edges that dangle     *)
(* while an endpoint is missing.                                              *)

LoopIds == {1, 2, 3}

LoopRelInputs ==
    {Relationship("Calls", e[1], e[2]) : e \in {<<1, 2>>, <<2, 1>>, <<1, 1>>, <<2, 3>>}}

StartRelated(node_id, depth) ==
    /\ pc = "api"
    /\ query' = [op |-> "find_related_nodes_loop", node_id |-> node_id, depth |-> depth,
                 to_visit |-> << <<node_id, 0>> >>, visited |-> {}, result |-> {},
                 marked |-> <<>>, expanded |-> <<>>]
    /\ pc' = "traversing"
    /\ UNCHANGED <<graph, fs, pending, reread, enhance_runs, tasks, lock, rel_calls, pool>>

\* A plausible slip: the visited set is not consulted.
RelatedStepRevisiting ==
    /\ pc = "traversing"
    /\ query.to_visit # <<>>
    /\ LET top == query.to_visit[Len(query.to_visit)]
           rest == SubSeq(query.to_visit, 1, Len(query.to_visit) - 1)
           current_id == top[1]
           current_depth == top[2]
       IN  query' =
             IF current_depth > query.depth
             THEN [query EXCEPT !.to_visit = rest]
             ELSE IF current_id \in DOMAIN graph.nodes
                  THEN [query EXCEPT
                          !.to_visit = IF current_depth < query.depth
                                       THEN rest \o Pushes(graph, current_id, current_depth)
                                       ELSE rest,
                          !.visited = @ \cup {current_id},
                          !.marked = Append(@, current_id),
                          !.result = @ \cup {graph.nodes[current_id]},
                          !.expanded = IF current_depth < query.depth
                                       THEN Append(@, current_id) ELSE @]
                  ELSE [query EXCEPT !.to_visit = rest,
                                     !.visited = @ \cup {current_id},
                                     !.marked = Append(@, current_id)]
    /\ UNCHANGED <<graph, fs, pc, pending, reread, enhance_runs, tasks, lock, rel_calls, pool>>

\* one turn of while let Some((current_id, current_depth)) = to_visit.pop()
RelatedStep ==
    /\ pc = "traversing"
    /\ query.to_visit # <<>>
    /\ LET top == query.to_visit[Len(query.to_visit)]
           rest == SubSeq(query.to_visit, 1, Len(query.to_visit) - 1)
           current_id == top[1]
           current_depth == top[2]
       IN  query' =
             IF current_depth > query.depth \/ current_id \in query.visited
             THEN [query EXCEPT !.to_visit = rest]
             ELSE IF current_id \in DOMAIN graph.nodes
                  THEN [query EXCEPT
                          !.to_visit = IF current_depth < query.depth
                                       THEN rest \o Pushes(graph, current_id, current_depth)
                                       ELSE rest,
                          !.visited = @ \cup {current_id},
                          !.marked = Append(@, current_id),
                          !.result = @ \cup {graph.nodes[current_id]},
                          !.expanded = IF current_depth < query.depth
                                       THEN Append(@, current_id) ELSE @]
                  ELSE [query EXCEPT !.to_visit = rest,
                                     !.visited = @ \cup {current_id},
                                     !.marked = Append(@, current_id)]
    /\ UNCHANGED <<graph, fs, pc, pending, reread, enhance_runs, tasks, lock, rel_calls, pool>>

\* pop() gives None: the loop ends and result is returned
ReturnRelated ==
    /\ pc = "traversing"
    /\ query.to_visit = <<>>
    /\ pc' = "queried"
    /\ UNCHANGED <<graph, fs, query, pending, reread, enhance_runs, tasks, lock, rel_calls, pool>>

LoopNext ==
    \/ \E node \in RelatedNodeInputs :
          node.id \in LoopIds /\ node.id \notin DOMAIN graph.nodes /\ AddNode(node)
    \/ \E rel \in LoopRelInputs : AddRelationship(rel, MaxLoopRels)
    \/ \E id \in QueryIds, depth \in 0..MaxDepth : StartRelated(id, depth)
    \/ RelatedStep
    \/ ReturnRelated

\* a call that has started keeps running: the thread is not starved
LoopSpec == Init /\ [][LoopNext]_vars /\ WF_vars(RelatedStep) /\ WF_vars(ReturnRelated)

-----------------------------------------------------------------------------
(* src/parsers: the language of a file *)

\* Option<String>: the language tag of an extension
detect_language_from_extension(extension) ==
    CASE extension = "rs" -> {"rust"}
      [] extension = "py" -> {"python"}
      [] extension \in {"js", "jsx"} -> {"javascript"}
      [] extension = "ts" -> {"typescript"}
      [] extension = "tsx" -> {"tsx"}
      [] extension = "java" -> {"java"}
      [] extension \in {"c", "h"} -> {"c"}
      [] extension \in {"cpp", "cc", "cxx", "hpp"} -> {"cpp"}
      [] extension = "go" -> {"go"}
      [] extension = "rb" -> {"ruby"}
      [] extension = "php" -> {"php"}
      [] OTHER -> {}

detect_language(file_path) == detect_language_from_extension(file_path[2])

\* Path::file_stem
file_stem(file_path) == file_path[1]

\* whether get_extractor_for_language returns Some
get_extractor_for_language(language) ==
    language \in {"rust", "python", "javascript", "typescript", "tsx", "java", "cpp", "c",
                  "go", "ruby"}

-----------------------------------------------------------------------------
(* The files under the root.  What the tree-sitter queries find in a file's  *)
(* text is the file's content here: the entities (units), the call sites as *)
(* <<line, called name>> and the imported module names, each in text order. *)

Unit(node_type, name, first, last) ==
    [node_type |-> node_type, name |-> name, line_range |-> <<first, last>>, parent_class |-> {}]

MethodOf(parent_class, name, first, last) ==
    [node_type |-> "Method", name |-> name, line_range |-> <<first, last>>,
     parent_class |-> {parent_class}]

Content(units, calls, imports) == [units |-> units, calls |-> calls, imports |-> imports]

FileA == <<"a", "rs">>

FileB == <<"b", "rs">>

FileC == <<"c", "php">>

FileD == <<"d", "swift">>

Files == <<FileA, FileB, FileC, FileD>>

FileNo(file_path) == CHOOSE i \in DOMAIN Files : Files[i] = file_path

\* a.rs: the called function alone; two functions of one name, the first
\* recursive; nested classes with a method; an outer class with a one-letter
\* name; overlapping, adjacent and end-sharing classes; a class and a module;
\* a two-letter function beside a method; a function and an interface of one
\* name beside a method without an owner; a one-letter class with a method
ContentsA ==
    { Content(<<Unit("Function", "helper", 1, 3)>>, <<>>, <<>>),
      Content(<<Unit("Function", "helper", 1, 3), Unit("Function", "helper", 5, 7)>>,
              << <<2, "helper">> >>, <<>>),
      Content(<<Unit("Class", "Outer", 1, 20), Unit("Class", "Inner", 5, 10),
                MethodOf("Inner", "draw", 6, 8)>>, <<>>, <<>>),
      Content(<<Unit("Class", "A", 1, 20), Unit("Class", "Inner", 5, 10)>>, <<>>, <<>>),
      Content(<<Unit("Class", "Left", 1, 10), Unit("Interface", "Right", 5, 15),
                Unit("Class", "Tail", 11, 15)>>, <<>>, <<>>),
      Content(<<Unit("Class", "Widget", 1, 9), Unit("Module", "util", 1, 30)>>, <<>>, <<>>),
      Content(<<Unit("Function", "hi", 1, 3), MethodOf("Widget", "helper", 5, 7)>>,
              << <<6, "hi">> >>, <<>>),
      Content(<<Unit("Function", "Widget", 1, 3), Unit("Interface", "Widget", 5, 9),
                Unit("Method", "solo", 11, 13)>>, <<>>, <<>>),
      Content(<<Unit("Class", "W", 1, 20), MethodOf("W", "run", 2, 4)>>, <<>>, <<>>) }

\* one function with up to MaxCalls call sites on its third line
GeneratedCallers ==
    { Content(<<Unit("Function", name, 1, 5)>>, calls, <<>>) :
        name \in {"go", "main", "helper"},
        calls \in UNION {[1..n -> {<<3, "helper">>, <<3, "go">>}] : n \in 0..MaxCalls} }

\* b.rs: one call; the call repeated, and one outside the function; a caller
\* with a two-letter name; a caller named like its callee; two callers; a
\* method beside its class, with imports; a two-letter function beside a class,
\* importing a.rs; a two-letter module that the file imports by its own stem
\* and by name; the generated callers
ContentsB ==
    GeneratedCallers \cup
    { Content(<<Unit("Function", "main", 1, 5)>>, << <<3, "helper">> >>, <<>>),
      Content(<<Unit("Function", "main", 1, 5)>>,
              << <<3, "helper">>, <<4, "helper">>, <<9, "helper">> >>, <<>>),
      Content(<<Unit("Function", "go", 1, 5)>>, << <<3, "helper">> >>, <<>>),
      Content(<<Unit("Function", "helper", 1, 5)>>, << <<3, "helper">> >>, <<>>),
      Content(<<Unit("Function", "main", 1, 5), Unit("Function", "other", 7, 9)>>,
              << <<3, "helper">>, <<3, "hi">>, <<8, "helper">> >>, <<>>),
      Content(<<MethodOf("Widget", "draw", 2, 4), Unit("Class", "Widget", 1, 10)>>,
              << <<3, "draw">> >>, <<"a", "util", "a">>),
      Content(<<Unit("Function", "go", 1, 5), Unit("Class", "Gadget", 7, 9)>>, <<>>, <<"a">>),
      Content(<<Unit("Module", "io", 1, 30), Unit("Function", "main", 2, 4)>>,
              <<>>, <<"b", "io">>) }

\* c.php: a language with a parser and no extractor
ContentsC == { Content(<<Unit("Function", "helper", 1, 3)>>, <<>>, <<>>) }

\* d.swift: a supported extension without a language
ContentsD == { Content(<<Unit("Function", "helper", 1, 3)>>, <<>>, <<>>) }

-----------------------------------------------------------------------------
(* src/indexing/extractor: from a file to its nodes *)

\* create_node; the id stands for the fresh UUID: the file's number and the
\* unit's place in the file
create_node(id, node_type, name, file_path, line_range, content) ==
    CodeNode(id, node_type, name, file_path, line_range, content)

UnitId(file_path, i) == 10 * FileNo(file_path) + i

\* LanguageExtractor::extract_code_units: a node per unit, a method's
\* enclosing type in its metadata
language_extract_code_units(content, file_path) ==
    [i \in DOMAIN content.units |->
        LET u == content.units[i]
            code_node == create_node(UnitId(file_path, i), u.node_type, u.name, file_path,
                                     u.line_range, u.name)
        IN  IF u.parent_class # {}
            THEN with_metadata(code_node, "parent_class", CHOOSE p \in u.parent_class : TRUE)
            ELSE code_node]

\* io::Result<Vec<CodeNode>>
extract_code_units(file_path, content, readable) ==
    IF ~readable THEN [ok |-> FALSE, units |-> <<>>]
    ELSE IF \E language \in detect_language(file_path) : get_extractor_for_language(language)
         THEN [ok |-> TRUE, units |-> language_extract_code_units(content, file_path)]
         ELSE [ok |-> TRUE, units |-> <<>>]

\* LanguageExtractor::extract_function_calls: the names called on the lines
\* of func_range
InRange(line, func_range) == line >= func_range[1] /\ line <= func_range[2]

extract_function_calls(content, func_range) ==
    LET within == SelectSeq(content.calls, LAMBDA c : InRange(c[1], func_range))
    IN  [i \in DOMAIN within |-> within[i][2]]

\* LanguageExtractor::extract_imported_modules
extract_imported_modules(content) == content.imports

-----------------------------------------------------------------------------
(* src/indexing/processor.rs: extraction *)

RECURSIVE AddUnits(_, _)
AddUnits(g, units) ==
    IF units = <<>> THEN g ELSE AddUnits(add_node(g, Head(units)), Tail(units))

\* one task of files_to_process.par_iter().for_each: the file's batch goes in
\* under the lock, a file that cannot be read adds nothing
ExtractFile(path, readable) ==
    /\ pc = "extract"
    /\ path \in pending
    /\ LET extracted == extract_code_units(path, fs[path], readable)
       IN  graph' = IF extracted.ok THEN AddUnits(graph, extracted.units) ELSE graph
    /\ pending' = pending \ {path}
    /\ UNCHANGED <<fs, pc, reread, enhance_runs, query, tasks, lock, rel_calls, pool>>

\* The same closure step by step.  tasks[path] is the task of one file: pc is
\* "idle" before the closure runs, "extracted" once extract_code_units has
\* returned Ok, "locked" while it holds the guard of graph.lock(), "done" when
\* the closure has returned; result is what extract_code_units returned, units
\* the batch, added the number of units passed to add_node.  lock is the holder
\* of the Mutex around the graph.
IdleTask == [pc |-> "idle", result |-> "none", units |-> <<>>, added |-> 0]

\* the tasks a worker thread is running
Running == {path \in DOMAIN tasks : tasks[path].pc \in {"extracted", "locked"}}

\* A plausible slip: an Err ends the whole run, as the ? operator would.
StartExtractAborting(path, readable) ==
    /\ pc = "extract"
    /\ tasks[path].pc = "idle"
    /\ Cardinality(Running) < NumThreads
    /\ LET extracted == extract_code_units(path, fs[path], readable)
       IN  IF extracted.ok
           THEN /\ tasks' = [tasks EXCEPT ![path] = [pc |-> "extracted", result |-> "ok",
                                                     units |-> extracted.units, added |-> 0]]
                /\ UNCHANGED pending
           ELSE /\ tasks' = [tasks EXCEPT ![path] = [pc |-> "done", result |-> "err",
                                                     units |-> <<>>, added |-> 0]]
                /\ pending' = {}
    /\ UNCHANGED <<graph, fs, pc, reread, enhance_runs, query, lock, rel_calls, pool>>

\* a worker takes the file and extracts its units, holding no lock; an Err is
\* logged and the closure returns
StartExtract(path, readable) ==
    /\ pc = "extract"
    /\ tasks[path].pc = "idle"
    /\ Cardinality(Running) < NumThreads
    /\ LET extracted == extract_code_units(path, fs[path], readable)
       IN  IF extracted.ok
           THEN /\ tasks' = [tasks EXCEPT ![path] = [pc |-> "extracted", result |-> "ok",
                                                     units |-> extracted.units, added |-> 0]]
                /\ UNCHANGED pending
           ELSE /\ tasks' = [tasks EXCEPT ![path] = [pc |-> "done", result |-> "err",
                                                     units |-> <<>>, added |-> 0]]
                /\ pending' = pending \ {path}
    /\ UNCHANGED <<graph, fs, pc, reread, enhance_runs, query, lock, rel_calls, pool>>

\* A plausible slip: the batch is inserted without waiting for the lock.
AcquireLockUnguarded(path) ==
    /\ pc = "extract"
    /\ tasks[path].pc = "extracted"
    /\ lock' = {path}
    /\ tasks' = [tasks EXCEPT ![path].pc = "locked"]
    /\ UNCHANGED <<graph, fs, pc, pending, reread, enhance_runs, query, rel_calls, pool>>

\* graph.lock().unwrap(): blocks until the Mutex is free
AcquireLock(path) ==
    /\ pc = "extract"
    /\ tasks[path].pc = "extracted"
    /\ lock = {}
    /\ lock' = {path}
    /\ tasks' = [tasks EXCEPT ![path].pc = "locked"]
    /\ UNCHANGED <<graph, fs, pc, pending, reread, enhance_runs, query, rel_calls, pool>>

\* one turn of for unit in units { graph.add_node(unit) }
LockedAddNode(path) ==
    /\ pc = "extract"
    /\ tasks[path].pc = "locked"
    /\ tasks[path].added < Len(tasks[path].units)
    /\ graph' = add_node(graph, tasks[path].units[tasks[path].added + 1])
    /\ tasks' = [tasks EXCEPT ![path].added = @ + 1]
    /\ UNCHANGED <<fs, pc, pending, reread, enhance_runs, query, lock, rel_calls, pool>>

\* the guard is dropped at the end of the Ok arm and the closure returns
ReleaseLock(path) ==
    /\ pc = "extract"
    /\ tasks[path].pc = "locked"
    /\ tasks[path].added = Len(tasks[path].units)
    /\ lock' = lock \ {path}
    /\ tasks' = [tasks EXCEPT ![path].pc = "done"]
    /\ pending' = pending \ {path}
    /\ UNCHANGED <<graph, fs, pc, reread, enhance_runs, query, rel_calls, pool>>

-----------------------------------------------------------------------------
(* src/indexing/analyzer.rs: relationship inference *)

\* names shorter than this are skipped
MinNameLen == 3

FlatMap(s, f(_)) == Flatten([i \in DOMAIN s |-> f(s[i])])

IsFunctionLike(node_type) == node_type \in {"Function", "Method"}

IsClassLike(node_type) == node_type \in {"Class", "Interface"}

\* the keys of the local nodes_by_file map: the files of the nodes whose name
\* is long enough
GroupedFiles(g) ==
    {g.nodes[id].file_path : id \in {i \in DOMAIN g.nodes : Len(g.nodes[i].name) >= MinNameLen}}

\* nodes_by_file[file_path]: (id, name, kind) of the file's nodes whose name is
\* long enough, in the order all_nodes() yields them
GroupedNodes(g, order, file_path) ==
    LET ids == SelectSeq(order, LAMBDA id : /\ Len(g.nodes[id].name) >= MinNameLen
                                            /\ g.nodes[id].file_path = file_path)
    IN  [i \in DOMAIN ids |-> <<ids[i], g.nodes[ids[i]].name, g.nodes[ids[i]].node_type>>]

\* function_map.get(name): the ids of the functions and methods of that name
FunctionTargets(g, order, name) ==
    SelectSeq(order, LAMBDA id : /\ IsFunctionLike(g.nodes[id].node_type)
                                 /\ Len(g.nodes[id].name) >= MinNameLen
                                 /\ g.nodes[id].name = name)

\* A plausible slip: the self-call test is left out.
CallEdgesWithSelf(func_id, target_ids) ==
    FlatMap(target_ids, LAMBDA target_id : <<Relationship("Calls", func_id, target_id)>>)

\* the Calls edges of one called name: one per target, the caller itself skipped
CallEdges(func_id, target_ids) ==
    FlatMap(target_ids, LAMBDA target_id :
        IF func_id = target_id THEN <<>> ELSE <<Relationship("Calls", func_id, target_id)>>)

find_function_call_relationships(language, content, nodes, g, order) ==
    LET functions_in_file == SelectSeq(nodes, LAMBDA n : IsFunctionLike(n[3]))
    IN  IF functions_in_file = <<>> THEN <<>>
        ELSE IF ~get_extractor_for_language(language) THEN <<>>
        ELSE FlatMap(functions_in_file, LAMBDA f :
                IF f[1] \notin DOMAIN g.nodes THEN <<>>
                ELSE FlatMap(extract_function_calls(content, g.nodes[f[1]].line_range),
                             LAMBDA called_func_name :
                                IF Len(called_func_name) < MinNameLen THEN <<>>
                                ELSE CallEdges(f[1], FunctionTargets(g, order, called_func_name))))

\* A plausible slip: the node type of the target is not tested.
ImportMatchesAnyKind(g, order, current_file_nodes, module_name) ==
    SelectSeq(order, LAMBDA id :
        /\ id \notin current_file_nodes
        /\ \/ g.nodes[id].name = module_name
           \/ file_stem(g.nodes[id].file_path) = module_name)

\* the nodes an import may resolve to, in the order all_nodes() yields them
ImportMatches(g, order, current_file_nodes, module_name) ==
    SelectSeq(order, LAMBDA id :
        /\ g.nodes[id].node_type \in {"Module", "Class", "Interface"}
        /\ id \notin current_file_nodes
        /\ \/ g.nodes[id].name = module_name
           \/ file_stem(g.nodes[id].file_path) = module_name)

find_import_relationships(language, content, nodes, g, order) ==
    IF ~get_extractor_for_language(language) THEN <<>>
    ELSE LET imported_modules == extract_imported_modules(content)
             current_file_nodes == {nodes[i][1] : i \in DOMAIN nodes}
         IN  FlatMap(imported_modules, LAMBDA module_name :
                LET matches == ImportMatches(g, order, current_file_nodes, module_name)
                IN  IF matches = <<>> THEN <<>>
                    ELSE FlatMap(nodes, LAMBDA n :
                            <<Relationship("Imports", n[1], Head(matches))>>))

\* sort_by_key(line_range.0): a stable sort
InsertByStart(sorted, node) ==
    LET before == Cardinality({i \in DOMAIN sorted :
                                  sorted[i].line_range[1] <= node.line_range[1]})
    IN  SubSeq(sorted, 1, before) \o <<node>> \o SubSeq(sorted, before + 1, Len(sorted))

RECURSIVE SortByStart(_)
SortByStart(s) ==
    IF s = <<>> THEN <<>>
    ELSE InsertByStart(SortByStart(SubSeq(s, 1, Len(s) - 1)), s[Len(s)])

\* whether inner's range is strictly inside outer's
StrictlyInside(inner_range, outer_range) ==
    inner_range[1] > outer_range[1] /\ inner_range[2] < outer_range[2]

\* A plausible slip: the edge carries the positions in the sorted list instead
\* of the ids of the classes.
find_hierarchical_relationships_by_position(nodes, g) ==
    LET class_entries == SelectSeq(nodes, LAMBDA n : IsClassLike(n[3]) /\ n[1] \in DOMAIN g.nodes)
        classes == [i \in DOMAIN class_entries |-> g.nodes[class_entries[i][1]]]
        sorted_classes == SortByStart(classes)
        indices == [i \in 1..Len(classes) |-> i]
    IN  IF Len(classes) <= 1 THEN <<>>
        ELSE FlatMap(indices, LAMBDA i :
                FlatMap(indices, LAMBDA j :
                    IF i = j THEN <<>>
                    ELSE IF StrictlyInside(sorted_classes[j].line_range,
                                           sorted_classes[i].line_range)
                         THEN <<Relationship("Contains", i, j)>>
                         ELSE <<>>))

find_hierarchical_relationships(nodes, g) ==
    LET class_entries == SelectSeq(nodes, LAMBDA n : IsClassLike(n[3]) /\ n[1] \in DOMAIN g.nodes)
        classes == [i \in DOMAIN class_entries |-> g.nodes[class_entries[i][1]]]
        sorted_classes == SortByStart(classes)
        indices == [i \in 1..Len(classes) |-> i]
    IN  IF Len(classes) <= 1 THEN <<>>
        ELSE FlatMap(indices, LAMBDA i :
                FlatMap(indices, LAMBDA j :
                    IF i = j THEN <<>>
                    ELSE IF StrictlyInside(sorted_classes[j].line_range,
                                           sorted_classes[i].line_range)
                         THEN <<Relationship("Contains", sorted_classes[i].id,
                                             sorted_classes[j].id)>>
                         ELSE <<>>))

\* find_nodes_by_name as the Vec it returns, in the order the HashSet yields
find_nodes_by_name_ordered(g, name, set_order) ==
    IF name \in DOMAIN g.nodes_by_name
    THEN LET ids == SelectSeq(set_order, LAMBDA id : id \in g.nodes_by_name[name]
                                                    /\ id \in DOMAIN g.nodes)
         IN  [i \in DOMAIN ids |-> g.nodes[ids[i]]]
    ELSE <<>>

\* A plausible slip: the owner is looked up among the nodes of the method's
\* own file only.
find_method_class_relationships_same_file(g, order, set_order) ==
    FlatMap(order, LAMBDA id :
        LET node == g.nodes[id]
        IN  IF node.node_type = "Method" /\ "parent_class" \in DOMAIN node.metadata
            THEN FlatMap(find_nodes_by_name_ordered(g, node.metadata["parent_class"], set_order),
                         LAMBDA class_node :
                            IF IsClassLike(class_node.node_type)
                               /\ class_node.file_path = node.file_path
                            THEN <<Relationship("Contains", class_node.id, node.id)>>
                            ELSE <<>>)
            ELSE <<>>)

find_method_class_relationships(g, order, set_order) ==
    FlatMap(order, LAMBDA id :
        LET node == g.nodes[id]
        IN  IF node.node_type = "Method" /\ "parent_class" \in DOMAIN node.metadata
            THEN FlatMap(find_nodes_by_name_ordered(g, node.metadata["parent_class"], set_order),
                         LAMBDA class_node :
                            IF IsClassLike(class_node.node_type)
                            THEN <<Relationship("Contains", class_node.id, node.id)>>
                            ELSE <<>>)
            ELSE <<>>)

RelKey(rel) == <<rel.from_id, rel.to_id, rel.relationship_type>>

\* A plausible slip: every candidate is stored.
RECURSIVE AddAllRelationships(_, _, _)
AddAllRelationships(g, rels, added_rels) ==
    IF rels = <<>> THEN g
    ELSE AddAllRelationships(add_relationship(g, Head(rels)), Tail(rels), added_rels)

\* the loop over relationships_to_add: a candidate is stored unless its
\* (from, to, kind) was stored before
RECURSIVE AddUniqueRelationships(_, _, _)
AddUniqueRelationships(g, rels, added_rels) ==
    IF rels = <<>> THEN g
    ELSE IF RelKey(Head(rels)) \in added_rels
         THEN AddUniqueRelationships(g, Tail(rels), added_rels)
         ELSE AddUniqueRelationships(add_relationship(g, Head(rels)), Tail(rels),
                                     added_rels \cup {RelKey(Head(rels))})

\* the candidates of one file; nothing when the file cannot be read again or
\* has no language
FileRelationships(g, files, order, readable, file_path) ==
    LET nodes == GroupedNodes(g, order, file_path)
    IN  IF nodes = <<>> \/ file_path \notin readable \/ detect_language(file_path) = {}
        THEN <<>>
        ELSE LET language == CHOOSE l \in detect_language(file_path) : TRUE
                 content == files[file_path]
             IN  find_function_call_relationships(language, content, nodes, g, order)
                 \o find_import_relationships(language, content, nodes, g, order)
                 \o find_hierarchical_relationships(nodes, g)

\* A plausible slip: the loop over the files ends at the first file that
\* cannot be read (break for continue).
relationships_to_add_until_failure(g, files, order, file_order, readable, set_order) ==
    LET failed == {i \in DOMAIN file_order : file_order[i] \notin readable}
        upto == IF failed = {} THEN Len(file_order)
                ELSE (CHOOSE i \in failed : \A j \in failed : i <= j) - 1
    IN  FlatMap(SubSeq(file_order, 1, upto),
                LAMBDA file_path : FileRelationships(g, files, order, readable, file_path))
        \o find_method_class_relationships(g, order, set_order)

\* the candidates, in the order they are collected
relationships_to_add(g, files, order, file_order, readable, set_order) ==
    FlatMap(file_order, LAMBDA file_path : FileRelationships(g, files, order, readable, file_path))
    \o find_method_class_relationships(g, order, set_order)

\* order: the order all_nodes() yields the nodes in; file_order: the order of
\* the local nodes_by_file map; readable: the files that can be read again;
\* set_order: the order the by-name buckets yield their ids in
identify_relationships(g, files, order, file_order, readable, set_order) ==
    AddUniqueRelationships(g,
        relationships_to_add(g, files, order, file_order, readable, set_order), {})

\* A plausible slip: the owner and the name are joined with a dot.
EnhancedNameDotted(parent_class, name) == parent_class \o "." \o name

\* format!("{}::{}", parent_class, node.name)
EnhancedName(parent_class, name) == parent_class \o "::" \o name

NeedsUpdate(node) == node.node_type = "Method" /\ "parent_class" \in DOMAIN node.metadata

enhance_method_names(g) ==
    [g EXCEPT !.nodes =
        [id \in DOMAIN g.nodes |->
            LET node == g.nodes[id]
            IN  IF NeedsUpdate(node)
                THEN [node EXCEPT !.name = EnhancedName(node.metadata["parent_class"], node.name)]
                ELSE node]]

SummaryOf(node) ==
    CASE node.node_type = "Function" -> "Function that handles " \o node.name
      [] node.node_type = "Method" -> "Method that implements " \o node.name
      [] node.node_type = "Class" -> "Class that represents " \o node.name
      [] node.node_type = "Interface" -> "Interface for " \o node.name
      [] node.node_type = "Module" -> "Module containing " \o node.name
      [] node.node_type = "TypeDefinition" -> "Type definition for " \o node.name
      [] OTHER -> "Code unit: " \o node.name

\* A plausible slip: the summary is recorded in the metadata as well.
generate_summaries_tagging(g) ==
    [g EXCEPT !.nodes =
        [id \in DOMAIN g.nodes |->
            [g.nodes[id] EXCEPT !.summary = {SummaryOf(g.nodes[id])},
                                !.metadata = Put(@, "summary", SummaryOf(g.nodes[id]))]]]

generate_summaries(g) ==
    [g EXCEPT !.nodes =
        [id \in DOMAIN g.nodes |-> [g.nodes[id] EXCEPT !.summary = {SummaryOf(g.nodes[id])}]]]

-----------------------------------------------------------------------------
(* src/lib.rs: the pipeline.  pc names the step that comes next. *)

\* the files the nodes came from
NodeFiles(g) == {g.nodes[id].file_path : id \in DOMAIN g.nodes}

\* the ids of the by-name buckets that find_method_class_relationships reads
ParentBucketIds(g) ==
    UNION {g.nodes_by_name[name] :
             name \in {g.nodes[id].metadata["parent_class"] :
                          id \in {i \in DOMAIN g.nodes : NeedsUpdate(g.nodes[i])}}
                      \cap DOMAIN g.nodes_by_name}

\* A plausible slip: inference does not wait for the extraction tasks.
IdentifyRelationshipsUnjoined(order, file_order, readable, set_order) ==
    /\ pc = "extract"
    /\ graph' = identify_relationships(graph, fs, order, file_order, readable, set_order)
    /\ reread' = readable
    /\ pc' = "enhance"
    /\ UNCHANGED <<fs, pending, enhance_runs, query, tasks, lock, rel_calls, pool>>

\* process_codebase, after process_codebase_parallel has returned; readable,
\* kept in reread, are the files read_file_content can read at that time
IdentifyRelationships(order, file_order, readable, set_order) ==
    /\ pc = "extract"
    /\ pending = {}
    /\ graph' = identify_relationships(graph, fs, order, file_order, readable, set_order)
    /\ reread' = readable
    /\ pc' = "enhance"
    /\ UNCHANGED <<fs, pending, enhance_runs, query, tasks, lock, rel_calls, pool>>

\* process_codebase runs it once; it is public, and a caller may run it again
\* on the graph process_codebase returned
EnhanceMethodNames ==
    /\ \/ pc = "enhance"
       \/ pc \in {"summaries", "done"} /\ enhance_runs < MaxEnhanceRuns
    /\ graph' = enhance_method_names(graph)
    /\ enhance_runs' = enhance_runs + 1
    /\ pc' = IF pc = "enhance" THEN "summaries" ELSE pc
    /\ UNCHANGED <<fs, pending, reread, query, tasks, lock, rel_calls, pool>>

\* analyze_codebase
GenerateSummaries ==
    /\ pc = "summaries"
    /\ graph' = generate_summaries(graph)
    /\ pc' = "done"
    /\ UNCHANGED <<fs, pending, reread, enhance_runs, query, tasks, lock, rel_calls, pool>>

PipelineInit ==
    /\ graph = NewGraph
    /\ \E a \in ContentsA, b \in ContentsB, c \in ContentsC, d \in ContentsD :
          fs = [file_path \in Range(Files) |->
                   IF file_path = FileA THEN a ELSE IF file_path = FileB THEN b
                   ELSE IF file_path = FileC THEN c ELSE d]
    /\ pc = "extract"
    /\ pending = Range(Files)
    /\ reread = {}
    /\ enhance_runs = 0
    /\ query = NoQuery
    /\ tasks = <<>>
    /\ lock = {}
    /\ rel_calls = 0
    /\ pool = {NumThreads}

PipelineNext ==
    \/ \E path \in pending, readable \in BOOLEAN : ExtractFile(path, readable)
    \/ \E order \in Perms(DOMAIN graph.nodes), file_order \in Perms(GroupedFiles(graph)),
          readable \in SUBSET NodeFiles(graph), set_order \in Perms(ParentBucketIds(graph)) :
            IdentifyRelationships(order, file_order, readable, set_order)
    \/ EnhanceMethodNames
    \/ GenerateSummaries

PipelineSpec == PipelineInit /\ [][PipelineNext]_vars

\* analyze_codebase as written: process_codebase, whose one call of
\* enhance_method_names follows inference, then the summaries, then the export.
QualifyNamesTwice ==
    /\ pc = "enhance"
    /\ graph' = enhance_method_names(enhance_method_names(graph))
    /\ enhance_runs' = enhance_runs + 1
    /\ pc' = "summaries"
    /\ UNCHANGED <<fs, pending, reread, query, tasks, lock, rel_calls, pool>>

QualifyNames == pc = "enhance" /\ EnhanceMethodNames

\* export_graph_to_json: query keeps the graph that was serialized
ExportGraph ==
    /\ pc = "done"
    /\ query' = [op |-> "export_graph_to_json", written |-> graph]
    /\ pc' = "exported"
    /\ UNCHANGED <<graph, fs, pending, reread, enhance_runs, tasks, lock, rel_calls, pool>>

AnalyzeNext ==
    \/ \E path \in pending, readable \in BOOLEAN : ExtractFile(path, readable)
    \/ \E order \in Perms(DOMAIN graph.nodes), file_order \in Perms(GroupedFiles(graph)),
          readable \in SUBSET NodeFiles(graph), set_order \in Perms(ParentBucketIds(graph)) :
            IdentifyRelationships(order, file_order, readable, set_order)
    \/ QualifyNames
    \/ GenerateSummaries
    \/ ExportGraph

AnalyzeSpec == PipelineInit /\ [][AnalyzeNext]_vars

\* The pipeline with the extraction tasks step by step, on the codebases whose
\* a.rs has one or two units and whose b.rs has more than a generated caller.
ParallelInit ==
    /\ graph = NewGraph
    /\ \E a \in {x \in ContentsA : Len(x.units) <= 2}, b \in ContentsB \ GeneratedCallers, c \in ContentsC, d \in ContentsD :
          fs = [file_path \in Range(Files) |->
                   IF file_path = FileA THEN a ELSE IF file_path = FileB THEN b
                   ELSE IF file_path = FileC THEN c ELSE d]
    /\ pc = "extract"
    /\ pending = Range(Files)
    /\ reread = {}
    /\ enhance_runs = 0
    /\ query = NoQuery
    /\ tasks = [path \in Range(Files) |-> IdleTask]
    /\ lock = {}
    /\ rel_calls = 0
    /\ pool = {NumThreads}

ParallelNext ==
    \/ \E path \in pending, readable \in BOOLEAN : StartExtract(path, readable)
    \/ \E path \in pending : AcquireLock(path)
    \/ \E path \in pending : LockedAddNode(path)
    \/ \E path \in pending : ReleaseLock(path)
    \/ \E order \in Perms(DOMAIN graph.nodes), file_order \in Perms(GroupedFiles(graph)),
          readable \in SUBSET NodeFiles(graph), set_order \in Perms(ParentBucketIds(graph)) :
            IdentifyRelationships(order, file_order, readable, set_order)
    \/ EnhanceMethodNames
    \/ GenerateSummaries

ParallelSpec == ParallelInit /\ [][ParallelNext]_vars

-----------------------------------------------------------------------------
(* process_codebase_parallel called again and again by one process.  pool is *)
(* rayon's global thread pool, an Option: empty until build_global has set   *)
(* it, and build_global returns Err once it is set.  A root is the set of    *)
(* the files under it.                                                       *)

get_supported_extensions ==
    {"py", "js", "ts", "jsx", "tsx", "java", "c", "cpp", "cc", "cxx", "hpp", "h", "rs", "go",
     "rb", "php", "swift", "cs", "kt", "kts"}

Roots == {{FileA, FileC}, {FileB, FileD}, Range(Files)}

collect_files_to_process(root_path) ==
    {path \in root_path : path[2] \in get_supported_extensions}

\* the call up to par_iter: a fresh store, build_global().unwrap(), the walk
ProcessCodebaseParallel(root_path, num_threads) ==
    /\ pc \in {"idle", "returned"}
    /\ graph' = NewGraph
    /\ query' = [op |-> "process_codebase_parallel", root_path |-> root_path]
    /\ IF pool # {}
       THEN /\ pc' = "panicked"
            /\ UNCHANGED <<pool, pending>>
       ELSE /\ pool' = {num_threads}
            /\ pending' = collect_files_to_process(root_path)
            /\ pc' = "extract"
    /\ UNCHANGED <<fs, reread, enhance_runs, tasks, lock, rel_calls>>

\* for_each has returned: Ok(final_graph)
ReturnGraph ==
    /\ pc = "extract"
    /\ pending = {}
    /\ pc' = "returned"
    /\ query' = [op |-> "process_codebase_parallel", root_path |-> query.root_path,
                 final_graph |-> graph]
    /\ UNCHANGED <<graph, fs, pending, reread, enhance_runs, tasks, lock, rel_calls, pool>>

RepeatInit ==
    /\ graph = NewGraph
    /\ \E a \in {x \in ContentsA : Len(x.units) <= 2}, b \in ContentsB \ GeneratedCallers,
          c \in ContentsC, d \in ContentsD :
          fs = [file_path \in Range(Files) |->
                   IF file_path = FileA THEN a ELSE IF file_path = FileB THEN b
                   ELSE IF file_path = FileC THEN c ELSE d]
    /\ pc = "idle"
    /\ pending = {}
    /\ reread = {}
    /\ enhance_runs = 0
    /\ query = NoQuery
    /\ tasks = <<>>
    /\ lock = {}
    /\ rel_calls = 0
    /\ pool = {}

RepeatNext ==
    \/ \E root_path \in Roots, num_threads \in 1..NumThreads :
          ProcessCodebaseParallel(root_path, num_threads)
    \/ \E path \in pending, readable \in BOOLEAN : ExtractFile(path, readable)
    \/ ReturnGraph

RepeatSpec == RepeatInit /\ [][RepeatNext]_vars

-----------------------------------------------------------------------------
(* Claims about the store. *)

BucketsHolding(index, id) == {k \in DOMAIN index : id \in index[k]}

\* C1: after add_node calls with pairwise-distinct ids, interleaved with
\* add_relationship calls, every inserted node's id is in exactly one bucket of
\* the by-kind, of the by-file and of the by-name index, and is a key of the
\* outgoing and of the incoming map.
C1_IndexConsistency ==
    \A id \in DOMAIN graph.nodes :
        /\ Cardinality(BucketsHolding(graph.nodes_by_type, id)) = 1
        /\ Cardinality(BucketsHolding(graph.nodes_by_file, id)) = 1
        /\ Cardinality(BucketsHolding(graph.nodes_by_name, id)) = 1
        /\ id \in DOMAIN graph.outgoing_edges
        /\ id \in DOMAIN graph.incoming_edges

\* three nodes, two of them in one by-name bucket, and an edge stored before
\* its target was inserted
C1_Witness ==
    /\ node_count(graph) = 3
    /\ \E k \in DOMAIN graph.nodes_by_name : Cardinality(graph.nodes_by_name[k]) = 2
    /\ \E id \in DOMAIN graph.nodes : Len(graph.incoming_edges[id]) = 2

\* the positions of a bucket that hold a Calls edge whose far end, the field
\* named end, is in the node map
Kept(g, bucket, end) ==
    {i \in DOMAIN bucket :
        bucket[i].relationship_type = "Calls" /\ bucket[i][end] \in DOMAIN g.nodes}

\* whether result lists the far-end nodes of the kept positions, in bucket order
IsResolution(g, result, bucket, end) ==
    LET kept == Kept(g, bucket, end)
    IN  /\ Len(result) = Cardinality(kept)
        /\ \A i \in kept : result[Cardinality({j \in kept : j <= i})] = g.nodes[bucket[i][end]]

\* C14: find_callers(id) lists exactly the present from-endpoints of the Calls
\* edges of id's incoming bucket, find_called_functions(id) the present
\* to-endpoints of the Calls edges of its outgoing bucket; other kinds are
\* ignored, missing endpoints dropped, and an id without a bucket gives the
\* empty list.
C14_CallersAndCalled ==
    /\ (pc = "queried" /\ query.op = "find_callers") =>
          IF query.node_id \in DOMAIN graph.incoming_edges
          THEN IsResolution(graph, query.result, graph.incoming_edges[query.node_id], "from_id")
          ELSE query.result = <<>>
    /\ (pc = "queried" /\ query.op = "find_called_functions") =>
          IF query.node_id \in DOMAIN graph.outgoing_edges
          THEN IsResolution(graph, query.result, graph.outgoing_edges[query.node_id], "to_id")
          ELSE query.result = <<>>

\* find_callers has answered for an id whose incoming bucket holds a Calls edge
\* from a present node, one from a missing node and an edge of another kind
C14_Witness ==
    /\ pc = "queried" /\ query.op = "find_callers"
    /\ query.node_id \in DOMAIN graph.incoming_edges
    /\ Len(query.result) = 1
    /\ \E i, j, k \in DOMAIN graph.incoming_edges[query.node_id] :
          LET bucket == graph.incoming_edges[query.node_id]
          IN  /\ bucket[i].relationship_type = "Calls" /\ bucket[i].from_id \in DOMAIN graph.nodes
              /\ bucket[j].relationship_type = "Calls" /\ bucket[j].from_id \notin DOMAIN graph.nodes
              /\ bucket[k].relationship_type = "Contains" /\ bucket[k].from_id \in DOMAIN graph.nodes

\* find_called_functions has answered with the empty list for an id that has
\* no bucket
C14_NoBucket ==
    /\ pc = "queried" /\ query.op = "find_called_functions"
    /\ query.node_id \notin DOMAIN graph.outgoing_edges
    /\ query.result = <<>>
    /\ node_count(graph) > 0

\* how often an edge is stored in the bucket of a key
Occurrences(map, key, e) ==
    IF key \in DOMAIN map THEN Cardinality({i \in DOMAIN map[key] : map[key][i] = e}) ELSE 0

\* the edges stored in either map
EdgesOfBothMaps(g) ==
    UNION ({Range(g.outgoing_edges[id]) : id \in DOMAIN g.outgoing_edges}
           \cup {Range(g.incoming_edges[id]) : id \in DOMAIN g.incoming_edges})

\* C19: after any sequence of add_node and add_relationship calls, every edge
\* is stored in outgoing[from_id] as often as in incoming[to_id], at least
\* once, also when an endpoint is not in the node map, and relationship_count
\* is the number of add_relationship calls made, duplicates included.
C19_BothDirections ==
    pc \in {"api", "queried"} =>
        /\ \A e \in EdgesOfBothMaps(graph) :
              /\ Occurrences(graph.outgoing_edges, e.from_id, e)
                    = Occurrences(graph.incoming_edges, e.to_id, e)
              /\ Occurrences(graph.outgoing_edges, e.from_id, e) >= 1
        /\ relationship_count(graph) = rel_calls

\* one edge with a missing endpoint was added twice, then its other endpoint
\* was inserted
C19_Witness ==
    /\ pc = "api"
    /\ rel_calls >= 2
    /\ \E e \in EdgesOfBothMaps(graph) :
          /\ Occurrences(graph.outgoing_edges, e.from_id, e) = 2
          /\ e.from_id \notin DOMAIN graph.nodes
          /\ e.to_id \in DOMAIN graph.nodes

\* whether every bucket of the index is kept with all its ids
IndexKept(old, new) ==
    /\ DOMAIN old \subseteq DOMAIN new
    /\ \A key \in DOMAIN old : old[key] \subseteq new[key]

\* C21: add_node with an id that is present leaves node_count as it was, makes
\* get_node(id) the second node, keeps every entry of the three indices and
\* adds the id under the second node's kind, file and name, and leaves the
\* edges of the id's outgoing and incoming buckets as they were.
C21_DuplicateId ==
    [][(query' # query /\ query'.op = "add_node") =>
          LET node == query'.node
          IN  /\ node_count(graph') = node_count(graph)
              /\ get_node(graph', node.id) = {node}
              /\ IndexKept(graph.nodes_by_type, graph'.nodes_by_type)
              /\ IndexKept(graph.nodes_by_file, graph'.nodes_by_file)
              /\ IndexKept(graph.nodes_by_name, graph'.nodes_by_name)
              /\ node.id \in graph'.nodes_by_type[node.node_type]
              /\ node.id \in graph'.nodes_by_file[node.file_path]
              /\ node.id \in graph'.nodes_by_name[node.name]
              /\ graph'.outgoing_edges = graph.outgoing_edges
              /\ graph'.incoming_edges = graph.incoming_edges]_vars

\* an id that has an edge was inserted again under another name, kind and file
C21_Witness ==
    /\ query.op = "add_node"
    /\ Cardinality(BucketsHolding(graph.nodes_by_name, query.node_id)) = 2
    /\ Cardinality(BucketsHolding(graph.nodes_by_type, query.node_id)) = 2
    /\ Cardinality(BucketsHolding(graph.nodes_by_file, query.node_id)) = 2
    /\ graph.outgoing_edges[query.node_id] # <<>>
    /\ node_count(graph) = 2

NoRepeat(s) == \A i, j \in DOMAIN s : s[i] = s[j] => i = j

\* C27: a call of find_related_nodes returns, on stores with cycles, self-loops,
\* parallel and dangling edges; while it runs each id is marked visited at most
\* once and expanded at most once, and only ids of the node map are expanded.
C27_Terminates ==
    /\ (pc = "traversing") ~> (pc = "queried")
    /\ [](pc \in {"traversing", "queried"} =>
             /\ NoRepeat(query.marked)
             /\ NoRepeat(query.expanded)
             /\ Range(query.expanded) \subseteq DOMAIN graph.nodes)

\* a call has returned on a store with the cycle 1 -> 2 -> 1 and an edge from 2
\* to the missing id 3: both nodes were expanded, 3 was marked and not expanded
C27_Witness ==
    /\ pc = "queried"
    /\ query.op = "find_related_nodes_loop"
    /\ DOMAIN graph.nodes = {1, 2}
    /\ \E i \in DOMAIN graph.outgoing_edges[1] : graph.outgoing_edges[1][i].to_id = 2
    /\ \E i, j \in DOMAIN graph.outgoing_edges[2] :
          graph.outgoing_edges[2][i].to_id = 1 /\ graph.outgoing_edges[2][j].to_id = 3
    /\ Len(query.expanded) = 2
    /\ 3 \in Range(query.marked)

IsRelatedQuery == pc = "queried" /\ query.op = "find_related_nodes"

\* C7: find_related_nodes(id, 0) is {node(id)} when id is in the node map and
\* empty when it is not, whatever edges touch id.
C7_DepthZero ==
    (IsRelatedQuery /\ query.depth = 0) => query.result = get_node(graph, query.node_id)

\* a depth-0 query of a present node that has an edge to a present node, a
\* self-loop and an edge that dangles
C7_Witness ==
    /\ IsRelatedQuery /\ query.depth = 0
    /\ query.node_id \in DOMAIN graph.nodes
    /\ \E i, j, k \in DOMAIN graph.outgoing_edges[query.node_id] :
          LET out == graph.outgoing_edges[query.node_id]
          IN  /\ out[i].to_id \in DOMAIN graph.nodes \ {query.node_id}
              /\ out[j].to_id \notin DOMAIN graph.nodes
              /\ out[k].to_id = query.node_id

\* C8: for k >= 1, find_related_nodes(id, k) is a superset of
\* find_related_nodes(id, k - 1).
C8_Monotone ==
    (IsRelatedQuery /\ query.depth >= 1) =>
        find_related_nodes(graph, query.node_id, query.depth - 1) \subseteq query.result

\* the far ends, present or not, of the edges that touch id
Neighbours(g, id) ==
    (IF id \in DOMAIN g.outgoing_edges THEN {r.to_id : r \in Range(g.outgoing_edges[id])} ELSE {})
    \cup
    (IF id \in DOMAIN g.incoming_edges THEN {r.from_id : r \in Range(g.incoming_edges[id])} ELSE {})

\* the present ids within k undirected hops of id, through present nodes
RECURSIVE Ball(_, _, _)
Ball(g, id, k) ==
    IF id \notin DOMAIN g.nodes THEN {}
    ELSE IF k = 0 THEN {id}
    ELSE LET inner == Ball(g, id, k - 1)
         IN  inner \cup ((UNION {Neighbours(g, b) : b \in inner}) \cap DOMAIN g.nodes)

\* C9: find_related_nodes(id, depth) is exactly the set of present nodes at
\* undirected hop distance at most depth from id.
C9_ExactBall ==
    IsRelatedQuery =>
        query.result = {graph.nodes[i] : i \in Ball(graph, query.node_id, query.depth)}

-----------------------------------------------------------------------------
(* Claims about the pipeline. *)

\* the ids of the file's nodes in the store
InsertedOf(path) == {id \in DOMAIN graph.nodes : graph.nodes[id].file_path = path}

Inferred == pc \in {"enhance", "summaries", "done"}

\* the edges stored in the outgoing map
StoredEdges(g) == UNION {Range(g.outgoing_edges[id]) : id \in DOMAIN g.outgoing_edges}

HasEdge(g, relationship_type, from_id, to_id) ==
    \E rel \in StoredEdges(g) : RelKey(rel) = <<from_id, to_id, relationship_type>>

\* the unit a node was extracted from, and the name it was extracted with
UnitOf(id) == fs[Files[id \div 10]].units[id % 10]

OriginalName(id) == UnitOf(id).name

\* whether the node's file could be read during inference and has a language
Analysed(node) == node.file_path \in reread /\ detect_language(node.file_path) # {}

\* C2: in every state of the pipeline, every node is in the by-name bucket of
\* its current name (find_nodes_by_name(n.name) returns n), and no by-name
\* bucket holds the id of a node that has another name.
C2_NameIndexLockstep ==
    /\ \A id \in DOMAIN graph.nodes :
          graph.nodes[id] \in find_nodes_by_name(graph, graph.nodes[id].name)
    /\ \A name \in DOMAIN graph.nodes_by_name :
          \A id \in graph.nodes_by_name[name] \cap DOMAIN graph.nodes :
             graph.nodes[id].name = name

\* C3: identify_relationships stores no Calls edge from a node to itself.
C3_NoSelfCalls ==
    \A id \in DOMAIN graph.outgoing_edges \cup DOMAIN graph.incoming_edges :
        \A rel \in Range(graph.outgoing_edges[id]) \cup Range(graph.incoming_edges[id]) :
            rel.relationship_type = "Calls" => rel.from_id # rel.to_id

\* inference has run on a function that calls its own name while another
\* function has that name, and the edge to the other one is stored
C3_Witness ==
    /\ Inferred
    /\ \E id, other \in DOMAIN graph.nodes :
          /\ id # other
          /\ Analysed(graph.nodes[id])
          /\ OriginalName(id) = OriginalName(other)
          /\ OriginalName(id) \in Range(extract_function_calls(fs[graph.nodes[id].file_path],
                                                                graph.nodes[id].line_range))
          /\ HasEdge(graph, "Calls", id, other)

\* C4: after identify_relationships, for Class/Interface nodes A and B of one
\* file that was read and has a language, Contains(A, B) is stored iff B's range
\* is strictly inside A's, whatever the names of A and B.
C4_NestingIffContains ==
    Inferred =>
        \A a, b \in DOMAIN graph.nodes :
            (/\ IsClassLike(graph.nodes[a].node_type)
             /\ IsClassLike(graph.nodes[b].node_type)
             /\ graph.nodes[a].file_path = graph.nodes[b].file_path
             /\ Analysed(graph.nodes[a]))
            => (HasEdge(graph, "Contains", a, b)
                  <=> StrictlyInside(graph.nodes[b].line_range, graph.nodes[a].line_range))

\* C5: once enhance_method_names has run, once or twice, a Method with
\* parent_class Owner extracted as m is named "Owner::m".
C5_QualifiedOnce ==
    enhance_runs >= 1 =>
        \A id \in DOMAIN graph.nodes :
            NeedsUpdate(graph.nodes[id]) =>
                graph.nodes[id].name
                    = EnhancedName(graph.nodes[id].metadata["parent_class"], OriginalName(id))

NoRepeatedKey(bucket) ==
    \A i, j \in DOMAIN bucket : RelKey(bucket[i]) = RelKey(bucket[j]) => i = j

\* C6: after identify_relationships has run on a store without edges, no two
\* edges of the outgoing map, and no two of the incoming map, have the same
\* (from_id, to_id, kind).
C6_Deduplicated ==
    /\ \A id \in DOMAIN graph.outgoing_edges : NoRepeatedKey(graph.outgoing_edges[id])
    /\ \A id \in DOMAIN graph.incoming_edges : NoRepeatedKey(graph.incoming_edges[id])

\* inference has run on a function that calls one name at two call sites,
\* and the edge to the function of that name is stored
C6_Witness ==
    /\ Inferred
    /\ \E id, target \in DOMAIN graph.nodes :
          LET called == extract_function_calls(fs[graph.nodes[id].file_path],
                                               graph.nodes[id].line_range)
          IN  /\ \E i, j \in DOMAIN called :
                    i # j /\ called[i] = called[j] /\ called[i] = OriginalName(target)
              /\ HasEdge(graph, "Calls", id, target)

\* the names called within a node's lines
CalledBy(id) ==
    Range(extract_function_calls(fs[graph.nodes[id].file_path], graph.nodes[id].line_range))

FunctionLikeIds == {id \in DOMAIN graph.nodes : IsFunctionLike(graph.nodes[id].node_type)}

\* C10: when a Function node M of a file that was read calls a name N of
\* length >= 3, exactly one other Function/Method node H is named N and no
\* other node calls N, then exactly one Calls edge M -> H is stored and
\* find_callers(H) is the one-element list of M.
C10_EndToEndCall ==
    Inferred =>
        \A m \in DOMAIN graph.nodes, h \in FunctionLikeIds :
            (/\ graph.nodes[m].node_type = "Function"
             /\ Analysed(graph.nodes[m])
             /\ Len(OriginalName(h)) >= 3
             /\ OriginalName(h) \in CalledBy(m)
             /\ {x \in FunctionLikeIds \ {m} : OriginalName(x) = OriginalName(h)} = {h}
             /\ \A x \in DOMAIN graph.nodes \ {m} : OriginalName(h) \notin CalledBy(x))
            => /\ Cardinality({i \in DOMAIN graph.outgoing_edges[m] :
                                 RelKey(graph.outgoing_edges[m][i]) = <<m, h, "Calls">>}) = 1
               /\ find_callers(graph, h) = <<graph.nodes[m]>>

\* C11: after identify_relationships, for every Method node m carrying
\* parent_class = P and every node c that was named P at that time, in any file
\* and of any name length, Contains(c, m) is stored iff c is a Class or an
\* Interface, whether or not the files of m and c could be read again.
C11_MethodClassContains ==
    Inferred =>
        \A m, c \in DOMAIN graph.nodes :
            (/\ graph.nodes[m].node_type = "Method"
             /\ "parent_class" \in DOMAIN graph.nodes[m].metadata
             /\ OriginalName(c) = graph.nodes[m].metadata["parent_class"])
            => (HasEdge(graph, "Contains", c, m) <=> graph.nodes[c].node_type \in {"Class", "Interface"})

\* inference has stored the edge from an owner of another file, neither file
\* readable, while a function has the owner's name too
C11_Witness ==
    /\ Inferred
    /\ \E m, c, f \in DOMAIN graph.nodes :
          /\ graph.nodes[m].node_type = "Method"
          /\ "parent_class" \in DOMAIN graph.nodes[m].metadata
          /\ OriginalName(c) = graph.nodes[m].metadata["parent_class"]
          /\ OriginalName(f) = OriginalName(c)
          /\ graph.nodes[f].node_type = "Function"
          /\ graph.nodes[c].file_path # graph.nodes[m].file_path
          /\ graph.nodes[c].file_path \notin reread
          /\ graph.nodes[m].file_path \notin reread
          /\ HasEdge(graph, "Contains", c, m)

\* inference has stored the edge from an owner with a one-letter name
C11_ShortOwner ==
    /\ Inferred
    /\ \E m, c \in DOMAIN graph.nodes :
          /\ Len(OriginalName(c)) < MinNameLen
          /\ HasEdge(graph, "Contains", c, m)
          /\ graph.nodes[m].node_type = "Method"

\* C12: after one run of enhance_method_names, a Method node with
\* parent_class = P that was named m is named "P::m", and every other node, a
\* Method without parent_class included, has the name it was extracted with.
C12_QualifiedAfterOneRun ==
    enhance_runs = 1 =>
        \A id \in DOMAIN graph.nodes :
            LET node == graph.nodes[id]
            IN  IF node.node_type = "Method" /\ "parent_class" \in DOMAIN node.metadata
                THEN node.name = node.metadata["parent_class"] \o "::" \o OriginalName(id)
                ELSE node.name = OriginalName(id)

\* one run has renamed a method beside a method without an owner and a class
C12_Witness ==
    /\ enhance_runs = 1
    /\ \E m, solo, c \in DOMAIN graph.nodes :
          /\ graph.nodes[m].name = "Widget::draw"
          /\ graph.nodes[solo].node_type = "Method"
          /\ graph.nodes[solo].metadata = <<>>
          /\ graph.nodes[solo].name = "solo"
          /\ graph.nodes[c].node_type = "Class"

ClassLikeIds == {id \in DOMAIN graph.nodes : IsClassLike(graph.nodes[id].node_type)}

\* whether b's range is strictly inside a's and both are in one file
NestedIn(b, a) ==
    /\ graph.nodes[a].file_path = graph.nodes[b].file_path
    /\ graph.nodes[b].line_range[1] > graph.nodes[a].line_range[1]
    /\ graph.nodes[b].line_range[2] < graph.nodes[a].line_range[2]

\* C13: after inference, whenever class Inner is strictly nested in class Outer
\* in a file that was read, Contains(Outer, Inner) is stored and
\* Contains(Inner, Outer) is not; for no pair of classes are both
\* Contains(A, B) and Contains(B, A) stored, and Contains(A, A) never is.
C13_OneDirectional ==
    Inferred =>
        \A a, b \in ClassLikeIds :
            /\ (NestedIn(b, a) /\ Analysed(graph.nodes[a]))
                  => (HasEdge(graph, "Contains", a, b) /\ ~HasEdge(graph, "Contains", b, a))
            /\ ~(HasEdge(graph, "Contains", a, b) /\ HasEdge(graph, "Contains", b, a))
            /\ ~HasEdge(graph, "Contains", a, a)

\* whether s is a prefix of t
IsPrefix(s, t) == Len(s) <= Len(t) /\ SubSeq(t, 1, Len(s)) = s

\* whether every bucket of the map is kept and only grows at its end
OnlyAppended(old, new) ==
    /\ DOMAIN old \subseteq DOMAIN new
    /\ \A key \in DOMAIN old : IsPrefix(old[key], new[key])

\* whether the nodes differ in the field at most
SameBut(old, new, field) ==
    /\ DOMAIN new = DOMAIN old
    /\ \A id \in DOMAIN old : [new[id] EXCEPT ![field] = old[id][field]] = old[id]

\* C20: no step of the pipeline removes a node or an edge or changes a node's
\* id, kind, file_path, line_range or content; identify_relationships leaves
\* the nodes and the three indices as they are and only adds edges;
\* enhance_method_names changes nothing but names and adds no edge;
\* generate_summaries changes nothing but summaries.
C20_AppendOnly ==
    [][/\ DOMAIN graph.nodes \subseteq DOMAIN graph'.nodes
       /\ OnlyAppended(graph.outgoing_edges, graph'.outgoing_edges)
       /\ OnlyAppended(graph.incoming_edges, graph'.incoming_edges)
       /\ \A id \in DOMAIN graph.nodes :
             \A field \in {"id", "node_type", "file_path", "line_range", "content"} :
                graph'.nodes[id][field] = graph.nodes[id][field]
       /\ (pc = "extract" /\ pc' = "enhance") =>
             /\ graph'.nodes = graph.nodes
             /\ graph'.nodes_by_type = graph.nodes_by_type
             /\ graph'.nodes_by_file = graph.nodes_by_file
             /\ graph'.nodes_by_name = graph.nodes_by_name
       /\ enhance_runs' # enhance_runs =>
             /\ SameBut(graph.nodes, graph'.nodes, "name")
             /\ graph'.outgoing_edges = graph.outgoing_edges
             /\ graph'.incoming_edges = graph.incoming_edges
       /\ (pc = "summaries" /\ pc' = "done") =>
             /\ SameBut(graph.nodes, graph'.nodes, "summary")
             /\ graph'.outgoing_edges = graph.outgoing_edges
             /\ graph'.incoming_edges = graph.incoming_edges]_vars

\* the three passes have run: edges are stored, a method is renamed and every
\* node has a summary
C20_Witness ==
    /\ pc = "done"
    /\ StoredEdges(graph) # {}
    /\ \E id \in DOMAIN graph.nodes : graph.nodes[id].name # OriginalName(id)
    /\ \A id \in DOMAIN graph.nodes : graph.nodes[id].summary # {}

\* the Calls edges of the store
CallsEdges == {e \in StoredEdges(graph) : e.relationship_type = "Calls"}

\* C22: after inference, every Function or Method f of a file that was read
\* and has a language has a Calls edge to every other Function or Method whose
\* name, of length >= 3, is called within f's lines, whatever the length of
\* f's own name; and every Calls edge leads to a node whose name has length
\* >= 3 and is called within the lines of the edge's source.
C22_CallFanOut ==
    Inferred =>
        /\ \A f \in FunctionLikeIds, g \in FunctionLikeIds :
              (/\ f # g
               /\ Analysed(graph.nodes[f])
               /\ Len(OriginalName(g)) >= 3
               /\ OriginalName(g) \in CalledBy(f))
              => HasEdge(graph, "Calls", f, g)
        /\ \A e \in CallsEdges :
              /\ Len(OriginalName(e.to_id)) >= 3
              /\ OriginalName(e.to_id) \in CalledBy(e.from_id)

\* the Module, Class and Interface nodes of other files that an import of the
\* file may resolve to: by name or by file stem
Eligible(file_path, module_name) ==
    {t \in DOMAIN graph.nodes :
        /\ graph.nodes[t].node_type \in {"Module", "Class", "Interface"}
        /\ graph.nodes[t].file_path # file_path
        /\ \/ OriginalName(t) = module_name
           \/ graph.nodes[t].file_path[1] = module_name}

\* the imports of the file that some eligible node matches
MatchedImports(file_path) ==
    {module_name \in Range(fs[file_path].imports) : Eligible(file_path, module_name) # {}}

\* the Imports edges whose source is a node of the file, as <<from, to>>
ImportsFrom(file_path) ==
    {<<e.from_id, e.to_id>> :
        e \in {x \in StoredEdges(graph) : /\ x.relationship_type = "Imports"
                                         /\ graph.nodes[x.from_id].file_path = file_path}}

\* C23: after inference, for every file that was read and has a language, the
\* Imports edges from its nodes are, for each matched import, the edges from
\* every node defined in the file to one single eligible target, and nothing
\* else.
C23_FirstMatchWins ==
    Inferred =>
        \A file_path \in NodeFiles(graph) :
            (file_path \in reread /\ detect_language(file_path) # {}) =>
                \E target \in [MatchedImports(file_path) -> DOMAIN graph.nodes] :
                    /\ \A module_name \in MatchedImports(file_path) :
                          target[module_name] \in Eligible(file_path, module_name)
                    /\ ImportsFrom(file_path)
                         = {<<n, target[module_name]>> :
                               n \in InsertedOf(file_path),
                               module_name \in MatchedImports(file_path)}

\* C24: no Imports edge stored by inference connects two nodes of one file,
\* whatever the names of the file's nodes.
C24_NoImportWithinFile ==
    \A e \in StoredEdges(graph) :
        e.relationship_type = "Imports" =>
            graph.nodes[e.from_id].file_path # graph.nodes[e.to_id].file_path

\* the name a node has once names are qualified
QualifiedName(id) ==
    IF UnitOf(id).node_type = "Method" /\ UnitOf(id).parent_class # {}
    THEN (CHOOSE p \in UnitOf(id).parent_class : TRUE) \o "::" \o UnitOf(id).name
    ELSE UnitOf(id).name

\* the steps of a run, in order
StepOrder ==
    {<<"extract", "enhance">>, <<"enhance", "summaries">>, <<"summaries", "done">>,
     <<"done", "exported">>}

\* C25: a run goes through extraction, inference, name qualification, summary
\* generation and export in this order; names are qualified exactly once,
\* after inference, so that inference sees the names as extracted; the
\* summaries are built from the qualified names, and the export writes the
\* graph that has them.
C25_PipelineOrder ==
    /\ [][pc' # pc => <<pc, pc'>> \in StepOrder]_vars
    /\ [][(pc = "extract" /\ pc' = "enhance") =>
             /\ pending = {}
             /\ \A id \in DOMAIN graph.nodes : graph.nodes[id].name = OriginalName(id)]_vars
    /\ [](enhance_runs = IF pc \in {"extract", "enhance"} THEN 0 ELSE 1)
    /\ [](pc \in {"summaries", "done", "exported"} =>
             \A id \in DOMAIN graph.nodes : graph.nodes[id].name = QualifiedName(id))
    /\ [](pc \in {"done", "exported"} =>
             \A id \in DOMAIN graph.nodes :
                graph.nodes[id].summary
                   = {SummaryOf([node_type |-> UnitOf(id).node_type, name |-> QualifiedName(id)])})
    /\ [](pc = "exported" => query.written = graph)

\* a run has exported a graph with an edge and a method whose summary has the
\* qualified name
C25_Witness ==
    /\ pc = "exported"
    /\ StoredEdges(query.written) # {}
    /\ \E id \in DOMAIN query.written.nodes :
          /\ query.written.nodes[id].name = "Widget::draw"
          /\ query.written.nodes[id].summary = {"Method that implements Widget::draw"}

\* whether the file could not be read again, or has no language
Skipped(file_path) == file_path \notin reread \/ detect_language(file_path) = {}

\* whether the edge is one that the per-file phases derive from the file: a
\* Calls or an Imports edge from one of its nodes, or a Contains edge between
\* two of its classes
DerivedFrom(e, file_path) ==
    /\ e.from_id \in InsertedOf(file_path)
    /\ \/ e.relationship_type \in {"Calls", "Imports"}
       \/ /\ e.relationship_type = "Contains"
          /\ e.to_id \in InsertedOf(file_path) \cap ClassLikeIds

\* the store before inference: the nodes and indices, no edge
WithoutEdges(g) ==
    [g EXCEPT !.outgoing_edges = [id \in DOMAIN g.outgoing_edges |-> <<>>],
              !.incoming_edges = [id \in DOMAIN g.incoming_edges |-> <<>>]]

\* what inference stores when every file can be read again, for one order of
\* the maps
AllReadable ==
    LET order == CHOOSE o \in Perms(DOMAIN graph.nodes) : TRUE
        file_order == CHOOSE o \in Perms(GroupedFiles(graph)) : TRUE
        set_order == CHOOSE o \in Perms(ParentBucketIds(graph)) : TRUE
    IN  identify_relationships(WithoutEdges(graph), fs, order, file_order, NodeFiles(graph),
                               set_order)

\* the (from, kind) of the edges derived from the file, and all of
\* (from, to, kind) where the target does not depend on the order of the maps
DerivedKeys(g, file_path) ==
    {IF e.relationship_type = "Imports" THEN <<e.from_id, "Imports">> ELSE RelKey(e) :
        e \in {x \in StoredEdges(g) : DerivedFrom(x, file_path)}}

\* C26: when identify_relationships has returned, a file that could not be
\* read again or has no language is the source file of no Calls, Imports or
\* class-in-class Contains edge; every other file has the edges it would have
\* if all files could be read; every method with parent_class has its
\* Contains edge from each class of that name; and no (from, to, kind) is
\* stored twice.
C26_LocalRecovery ==
    pc = "enhance" =>
        /\ \A file_path \in NodeFiles(graph) :
              IF Skipped(file_path)
              THEN \A e \in StoredEdges(graph) : ~DerivedFrom(e, file_path)
              ELSE DerivedKeys(graph, file_path) = DerivedKeys(AllReadable, file_path)
        /\ \A m, c \in DOMAIN graph.nodes :
              (/\ graph.nodes[m].node_type = "Method"
               /\ "parent_class" \in DOMAIN graph.nodes[m].metadata
               /\ graph.nodes[c].name = graph.nodes[m].metadata["parent_class"]
               /\ graph.nodes[c].node_type \in {"Class", "Interface"})
              => HasEdge(graph, "Contains", c, m)
        /\ \A id \in DOMAIN graph.outgoing_edges : NoRepeatedKey(graph.outgoing_edges[id])

\* inference has returned; a.rs, with nested classes and a method, could not
\* be read and has only the method's Contains edge, while a Calls edge from
\* b.rs is stored
C26_Witness ==
    /\ pc = "enhance"
    /\ FileA \notin reread /\ FileB \in reread
    /\ \E a, b \in ClassLikeIds \cap InsertedOf(FileA) : NestedIn(b, a)
    /\ \E e \in StoredEdges(graph) :
          /\ e.relationship_type = "Contains"
          /\ e.from_id \in InsertedOf(FileA)
          /\ graph.nodes[e.to_id].node_type = "Method"
    /\ \E e \in StoredEdges(graph) :
          e.relationship_type = "Calls" /\ e.from_id \in InsertedOf(FileB)

\* the edges stored in the incoming map
StoredIncoming(g) == UNION {Range(g.incoming_edges[id]) : id \in DOMAIN g.incoming_edges}

\* C28: once identify_relationships has run, every stored edge has its from_id
\* and its to_id in the node map, and the key set of the outgoing map and the
\* key set of the incoming map are the set of node ids, to the end of the
\* pipeline.
C28_ReferentialIntegrity ==
    Inferred =>
        /\ \A e \in StoredEdges(graph) \cup StoredIncoming(graph) :
              e.from_id \in DOMAIN graph.nodes /\ e.to_id \in DOMAIN graph.nodes
        /\ DOMAIN graph.outgoing_edges = DOMAIN graph.nodes
        /\ DOMAIN graph.incoming_edges = DOMAIN graph.nodes

\* the pipeline has ended with a call edge between two files, a class nested in
\* a class and a method in its class
C28_Witness ==
    /\ pc = "done"
    /\ \E e \in StoredEdges(graph) :
          /\ e.relationship_type = "Calls"
          /\ e.from_id \in InsertedOf(FileB) /\ e.to_id \in InsertedOf(FileA)
    /\ \E e \in StoredEdges(graph) :
          e.relationship_type = "Contains" /\ {e.from_id, e.to_id} \subseteq ClassLikeIds
    /\ \E e \in StoredEdges(graph) :
          e.relationship_type = "Contains" /\ e.to_id \notin ClassLikeIds

TypeOf(id) == graph.nodes[id].node_type

\* C29: once identify_relationships has run, every stored edge is a Calls, an
\* Imports or a Contains edge; a Calls edge joins Function or Method nodes; an
\* Imports edge ends at a Module, Class or Interface node; a Contains edge
\* leaves a Class or Interface node and ends at a Class, Interface or Method
\* node.
C29_EdgeTyping ==
    Inferred =>
        \A e \in StoredEdges(graph) :
            /\ e.relationship_type \in {"Calls", "Imports", "Contains"}
            /\ e.relationship_type = "Calls" =>
                  {TypeOf(e.from_id), TypeOf(e.to_id)} \subseteq {"Function", "Method"}
            /\ e.relationship_type = "Imports" =>
                  TypeOf(e.to_id) \in {"Module", "Class", "Interface"}
            /\ e.relationship_type = "Contains" =>
                  /\ TypeOf(e.from_id) \in {"Class", "Interface"}
                  /\ TypeOf(e.to_id) \in {"Class", "Interface", "Method"}

\* identify_relationships has stored an Imports edge into a file that also holds
\* a function, next to a Calls and a Contains edge
C29_Witness ==
    /\ pc = "enhance"
    /\ \E e \in StoredEdges(graph) :
          /\ e.relationship_type = "Imports"
          /\ \E id \in DOMAIN graph.nodes :
                /\ graph.nodes[id].file_path = graph.nodes[e.to_id].file_path
                /\ TypeOf(id) \in {"Function", "Method"}
    /\ \E e \in StoredEdges(graph) : e.relationship_type = "Calls"
    /\ \E e \in StoredEdges(graph) : e.relationship_type = "Contains"

-----------------------------------------------------------------------------
(* Claims about the extraction tasks. *)

\* every extraction task has returned
Joined == tasks # <<>> /\ pending = {}

\* the nodes of the batches that were extracted
Batches == UNION {Range(tasks[path].units) : path \in DOMAIN tasks}

\* the index that maps each value of a field to the ids of the batch nodes
\* that have it
IndexOf(field) ==
    [key \in {n[field] : n \in Batches} |-> {n.id : n \in {x \in Batches : x[field] = key}}]

\* C15: when all extraction tasks have finished, the node map and the by-kind,
\* by-file and by-name indices are determined by the per-file extraction
\* results alone, whatever the interleaving of the tasks was.
C15_OrderIndependent ==
    (Joined /\ pc = "extract") =>
        /\ graph.nodes = [id \in {n.id : n \in Batches} |-> CHOOSE n \in Batches : n.id = id]
        /\ graph.nodes_by_type = IndexOf("node_type")
        /\ graph.nodes_by_file = IndexOf("file_path")
        /\ graph.nodes_by_name = IndexOf("name")

\* all tasks have finished and a by-name bucket holds nodes of two files
C15_Witness ==
    /\ Joined /\ pc = "extract"
    /\ \E name \in DOMAIN graph.nodes_by_name :
          \E i, j \in graph.nodes_by_name[name] :
             graph.nodes[i].file_path # graph.nodes[j].file_path

\* the tasks that hold the guard
LockedTasks == {path \in DOMAIN tasks : tasks[path].pc = "locked"}

\* C16: during extraction at most one task mutates the store; a file's batch
\* goes in within one critical section, so only the lock holder's batch can be
\* partly inserted; and the holder computed its whole batch before it took the
\* lock.
C16_OneCriticalSection ==
    /\ Cardinality(LockedTasks) <= 1
    /\ LockedTasks = lock
    /\ \A path \in DOMAIN tasks \ lock :
          \/ InsertedOf(path) = {}
          \/ tasks[path].pc = "done" /\ Cardinality(InsertedOf(path)) = Len(tasks[path].units)
    /\ \A path \in lock :
          /\ tasks[path].result = "ok"
          /\ Cardinality(InsertedOf(path)) = tasks[path].added

\* a task has inserted a part of its batch while another one, its batch
\* extracted, waits for the lock
C16_Witness ==
    \E holder \in lock, waiting \in DOMAIN tasks :
        /\ tasks[holder].added >= 1
        /\ tasks[holder].added < Len(tasks[holder].units)
        /\ tasks[waiting].pc = "extracted"
        /\ Len(tasks[waiting].units) >= 2

\* C17: identify_relationships, enhance_method_names and generate_summaries
\* run only when every extraction task has returned and the lock is free, and
\* no node is inserted once inference has started.
C17_Barrier ==
    /\ [](Inferred => (\A path \in DOMAIN tasks : tasks[path].pc = "done") /\ lock = {} /\ pending = {})
    /\ [][(Inferred \/ pc' \in {"enhance", "summaries", "done"})
            => DOMAIN graph'.nodes = DOMAIN graph.nodes]_vars

\* inference has stored an edge on a store that two tasks filled
C17_Witness ==
    /\ Inferred /\ Joined
    /\ InsertedOf(FileA) # {} /\ InsertedOf(FileB) # {}
    /\ StoredEdges(graph) # {}

RECURSIVE BatchTotal(_)
BatchTotal(paths) ==
    IF paths = {} THEN 0
    ELSE LET path == CHOOSE x \in paths : TRUE
         IN  (IF tasks[path].result = "ok" THEN Len(tasks[path].units) ELSE 0)
             + BatchTotal(paths \ {path})

\* C18: when the extraction tasks have returned, every task has run; a file
\* that could not be read, and a file without a language, has no node in the
\* store; every other file's batch is in the store completely; the node count
\* is the sum of the batch sizes of the files that succeeded.
C18_FailureIsolation ==
    Joined =>
        /\ \A path \in DOMAIN tasks :
              /\ tasks[path].pc = "done"
              /\ tasks[path].result \in {"ok", "err"}
              /\ tasks[path].result = "err" => InsertedOf(path) = {}
              /\ path[2] = "swift" => InsertedOf(path) = {}
              /\ tasks[path].result = "ok" =>
                    \A i \in DOMAIN tasks[path].units :
                        tasks[path].units[i].id \in InsertedOf(path)
        /\ node_count(graph) = BatchTotal(DOMAIN tasks)

\* all tasks have returned, a.rs could not be read, b.rs gave two nodes and the
\* file without a language none
C18_Witness ==
    /\ Joined
    /\ tasks[FileA].result = "err"
    /\ tasks[FileB].result = "ok" /\ Len(tasks[FileB].units) = 2
    /\ tasks[FileD].result = "ok"
    /\ node_count(graph) = 2

\* the files the nodes of a store come from
FilesOf(g) == {g.nodes[id].file_path : id \in DOMAIN g.nodes}

\* C30: process_codebase_parallel can be called more than once by one process:
\* no call panics, every call that has started has its worker pool configured
\* and holds only nodes of files under its own root, and the graph it returns
\* holds only nodes of files under its own root.
C30_Reinvocable ==
    /\ pc # "panicked"
    /\ pc = "extract" => pool # {} /\ FilesOf(graph) \subseteq query.root_path
    /\ pc = "returned" => FilesOf(query.final_graph) \subseteq query.root_path

====
